---- MODULE Spec2Model ----
(***************************************************************************)
(* Tool handlers of the Echo + Exchange + Weather + Product server.        *)
(*                                                                         *)
(* The repository holds the same tools in several entry points:            *)
(*   main.py         echo_tool, get_exchange_rate, get_weather,            *)
(*                   get_product_info                                      *)
(*   fastmcp.py      get_product_info, get_exchange_rate, get_weather      *)
(*   exchangerate.py get_exchange_rate                                     *)
(*   weather.py      fetch_weather, get_weather                            *)
(* Each handler is modelled from its own source; the entry point is the    *)
(* "variant" of a call.                                                    *)
(*                                                                         *)
(* Python values are tagged tuples, so that None, numbers, strings, lists  *)
(* and dicts can sit in the same field:                                    *)
(*   <<"none">>  <<"int", n>>  <<"bin", n>>  <<"dec", m>>  <<"str", s>>    *)
(*   <<"list", seq>>  <<"dict", f>>  <<"bool", b>>                         *)
(* A raised exception is <<"exc", type, str(e)>>.                          *)
(*                                                                         *)
(* A float is one of                                                       *)
(*   <<"bin", n>>  the binary fraction n / 2^FracBits, which a double      *)
(*                 holds exactly (0.5 is <<"bin", 8>>): the floats that    *)
(*                 come in as arguments and in upstream bodies;            *)
(*   <<"dec", m>>  the double nearest to m / 10^Digits: what               *)
(*                 round(x, 4) returns.                                    *)
(* The product of two binary fractions of the model is again held exactly  *)
(* by a double, so the float product and its rounding are computed here    *)
(* on the values the code computes them on.                                *)
(***************************************************************************)
EXTENDS Integers, Sequences, FiniteSets, Bags, TLC

VARIABLES pc, call, ret, results, idx, images, videos, issued, mediaLog, pending

vars == <<pc, call, ret, results, idx, images, videos, issued, mediaLog, pending>>

---------------------------------------------------------------------------
(* Bounds of the model *)

\* longest product list the store answers with
MaxProducts == 3
\* longest media list the store answers with
MaxMedia == 2
\* most calls waiting for their upstream answer at the same time
MaxInFlight == 2
\* the floats of the model are the multiples of 2^-FracBits
FracBits == 4

---------------------------------------------------------------------------
(* Python values *)

None == <<"none">>
IntV(n) == <<"int", n>>
BinV(n) == <<"bin", n>>
DecV(m) == <<"dec", m>>
Str(s) == <<"str", s>>
List(s) == <<"list", s>>
Dict(f) == <<"dict", f>>
Bool(b) == <<"bool", b>>
Exc(type, msg) == <<"exc", type, msg>>

IsExc(v) == v[1] = "exc"
\* what "except Exception" catches: asyncio.CancelledError is a BaseException
IsException(v) == IsExc(v) /\ v[2] # "CancelledError"
IsDict(v) == v[1] = "dict"
IsList(v) == v[1] = "list"

\* type(v).__name__, as it appears in Python's error messages
TypeName(v) ==
    CASE v[1] = "none" -> "NoneType"
      [] v[1] = "int"  -> "int"
      [] v[1] = "bin"  -> "float"
      [] v[1] = "dec"  -> "float"
      [] v[1] = "str"  -> "str"
      [] v[1] = "list" -> "list"
      [] v[1] = "dict" -> "dict"
      [] v[1] = "bool" -> "bool"

\* key in v   (v a dict, a list, None; key a str)
PyContains(key, v) ==
    CASE IsDict(v) -> Bool(key \in DOMAIN v[2])
      [] IsList(v) -> Bool(\E j \in 1..Len(v[2]) : v[2][j] = Str(key))
      [] OTHER     -> Exc("TypeError",
                          "argument of type '" \o TypeName(v) \o "' is not iterable")

\* v[key]   (key a str)
PySubscript(v, key) ==
    CASE IsDict(v) -> IF key \in DOMAIN v[2] THEN v[2][key]
                      ELSE Exc("KeyError", "'" \o key \o "'")
      [] IsList(v) -> Exc("TypeError", "list indices must be integers or slices, not str")
      [] OTHER     -> Exc("TypeError",
                          "'" \o TypeName(v) \o "' object is not subscriptable")

\* v.get(key, default): dict.get returns the stored value whenever the key is
\* present, a stored None included; the default only when the key is missing
PyGetDefault(v, key, default) ==
    IF IsDict(v)
    THEN IF key \in DOMAIN v[2] THEN v[2][key] ELSE default
    ELSE Exc("AttributeError",
             "'" \o TypeName(v) \o "' object has no attribute 'get'")

\* v.get(key)
PyGet(v, key) == PyGetDefault(v, key, None)

\* bool(v) for the values the handlers test
Truthy(v) ==
    CASE v[1] = "none" -> FALSE
      [] v[1] = "list" -> Len(v[2]) > 0
      [] v[1] = "str"  -> v[2] # ""
      [] OTHER         -> TRUE

---------------------------------------------------------------------------
(* Numbers *)

\* round(x, 4): the number of fractional digits kept
Digits == 4
Scale == 10 ^ Digits

\* the denominator of the binary fractions
BinUnit == 2 ^ FracBits

\* x / unit rounded to the nearest integer, ties to even: round() rounds the
\* exact value of the double correctly, the exact tie to the even digit
RoundHalfEven(x, unit) ==
    LET q == x \div unit
        r == x % unit
    IN  IF 2 * r > unit THEN q + 1
        ELSE IF 2 * r < unit THEN q
        ELSE IF q % 2 = 0 THEN q ELSE q + 1

\* round(rate * amount, 4) on two binary fractions: the float product
\* rate[2] * amount[2] / BinUnit^2 is exact, and its rounding to 4 digits is
\* the nearest multiple of 10^-4 of that exact value.  Defined on nothing
\* else: a float that is no binary fraction has no value in the model.
RoundMul(rate, amount) ==
    CASE rate[1] = "bin" /\ amount[1] = "bin" ->
        DecV(RoundHalfEven(rate[2] * amount[2] * Scale, BinUnit * BinUnit))

---------------------------------------------------------------------------
(* Strings *)

Codes == {"usd", "Eur", "GBP"}

\* str.upper() on currency codes
Upper(s) ==
    CASE s \in {"usd", "Usd", "USD"} -> "USD"
      [] s \in {"eur", "Eur", "EUR"} -> "EUR"
      [] s \in {"gbp", "Gbp", "GBP"} -> "GBP"

---------------------------------------------------------------------------
(* The upstream HTTP exchange: client.get, raise_for_status, response.json *)

\* what the upstream does with one GET
NetError(cause) == [kind |-> "neterr", cause |-> cause, body |-> None]
BadStatus(cause) == [kind |-> "status", cause |-> cause, body |-> None]
Ok2xx(body) == [kind |-> "ok", cause |-> "", body |-> body]

\* the task is cancelled while it waits in client.get
Cancelled == [kind |-> "cancel", cause |-> "", body |-> None]

\* the GET of the call has not ended
NoAnswer == [kind |-> "none", cause |-> "", body |-> None]

\* asyncio.CancelledError, thrown into the handler where it waits
CancelledError == Exc("CancelledError", "")

Failures == {NetError("timed out"), BadStatus("Server error '500' for url")}

\* how "await client.get(...)" followed by response.raise_for_status() ends
HttpGet(resp) ==
    IF resp.kind = "cancel" THEN CancelledError
    ELSE IF resp.kind = "neterr" THEN Exc("ConnectError", resp.cause)
    ELSE IF resp.kind = "status" THEN Exc("HTTPStatusError", resp.cause)
    ELSE resp.body

\* data = response.json(): httpx decodes the body synchronously
ResponseJson(body) == body

\* data = await response.json(): the decoded body is no awaitable
AwaitResponseJson(body) ==
    Exc("TypeError",
        "object " \o TypeName(body) \o " can't be used in 'await' expression")

Returned(v) == [kind |-> "return", value |-> v]
Raised(e) == [kind |-> "raise", value |-> e]
NoReturn == [kind |-> "none", value |-> None]

\* the value a handler hands back, or the exception that leaves it
Outcome(v) == IF IsExc(v) THEN Raised(v) ELSE Returned(v)

ErrorDict(msg) == Dict([error |-> Str(msg)])

---------------------------------------------------------------------------
(* get_exchange_rate *)

\* the body of the try block once the JSON body is decoded
ExchangeQuote(data, source_currency, destination_currency, amount) ==
    LET rates == PySubscript(data, "rates")
        rate == PyGet(rates, Upper(destination_currency))
        date == PyGet(data, "date")
    IN  IF IsExc(rates) THEN rates
        ELSE IF IsExc(rate) THEN rate
        ELSE IF rate = None
        THEN ErrorDict("Invalid currency code or unsupported conversion.")
        ELSE Dict([from      |-> Str(Upper(source_currency)),
                   to        |-> Str(Upper(destination_currency)),
                   amount    |-> amount,
                   rate      |-> rate,
                   converted |-> RoundMul(rate, amount),
                   date      |-> date])

\* except Exception as e: return {"error": f"API request failed: {e}"}
ExceptApiRequestFailed(v) ==
    IF IsException(v) THEN ErrorDict("API request failed: " \o v[3]) ELSE v

\* main.py
get_exchange_rate_main(source_currency, destination_currency, amount, resp) ==
    LET response == HttpGet(resp)
        data == ResponseJson(response)
    IN  Outcome(ExceptApiRequestFailed(
            IF IsExc(response) THEN response
            ELSE ExchangeQuote(data, source_currency, destination_currency, amount)))

\* exchangerate.py
get_exchange_rate_exchangerate(source_currency, destination_currency, amount, resp) ==
    LET response == HttpGet(resp)
        data == ResponseJson(response)
    IN  Outcome(ExceptApiRequestFailed(
            IF IsExc(response) THEN response
            ELSE ExchangeQuote(data, source_currency, destination_currency, amount)))

\* fastmcp.py
get_exchange_rate_fastmcp(source_currency, destination_currency, amount, resp) ==
    LET response == HttpGet(resp)
        data == AwaitResponseJson(response)
    IN  Outcome(ExceptApiRequestFailed(
            IF IsExc(response) THEN response
            ELSE IF IsExc(data) THEN data
            ELSE ExchangeQuote(data, source_currency, destination_currency, amount)))

ExchangeVariants == {"main", "exchangerate", "fastmcp"}

get_exchange_rate(variant, source_currency, destination_currency, amount, resp) ==
    CASE variant = "main" ->
            get_exchange_rate_main(source_currency, destination_currency, amount, resp)
      [] variant = "exchangerate" ->
            get_exchange_rate_exchangerate(source_currency, destination_currency, amount, resp)
      [] variant = "fastmcp" ->
            get_exchange_rate_fastmcp(source_currency, destination_currency, amount, resp)

---------------------------------------------------------------------------
(* get_weather *)

\* the projection of the current-conditions object, main.py and fastmcp.py
WeatherObservation(data) ==
    LET has == PyContains("current_weather", data)
        current == PySubscript(data, "current_weather")
        temperature == PyGet(current, "temperature")
    IN  IF IsExc(has) THEN has
        ELSE IF ~has[2] THEN ErrorDict("No weather data available.")
        ELSE IF IsExc(current) THEN current
        ELSE IF IsExc(temperature) THEN temperature
        ELSE Dict([temperature   |-> temperature,
                   windspeed     |-> PyGet(current, "windspeed"),
                   winddirection |-> PyGet(current, "winddirection"),
                   weathercode   |-> PyGet(current, "weathercode"),
                   time          |-> PyGet(current, "time")])

\* except Exception as e: return {"error": f"Failed to fetch weather: {e}"}
ExceptFailedToFetch(v) ==
    IF IsException(v) THEN ErrorDict("Failed to fetch weather: " \o v[3]) ELSE v

\* main.py
get_weather_main(latitude, longitude, resp) ==
    LET response == HttpGet(resp)
        data == ResponseJson(response)
    IN  Outcome(ExceptFailedToFetch(
            IF IsExc(response) THEN response ELSE WeatherObservation(data)))

\* fastmcp.py
get_weather_fastmcp(latitude, longitude, resp) ==
    LET response == HttpGet(resp)
        data == AwaitResponseJson(response)
    IN  Outcome(ExceptFailedToFetch(
            IF IsExc(response) THEN response
            ELSE IF IsExc(data) THEN data
            ELSE WeatherObservation(data)))

\* weather.py: the fetch catches its own faults and answers with an error dict
fetch_weather(lat, lon, resp) ==
    LET response == HttpGet(resp)
    IN  ExceptFailedToFetch(
            IF IsExc(response) THEN response ELSE ResponseJson(response))

\* weather.py: no try block around the projection
get_weather_weather(lat, lon, resp) ==
    LET result == fetch_weather(lat, lon, resp)
        has == PyContains("current_weather", result)
        cw == PySubscript(result, "current_weather")
        temperature == PyGet(cw, "temperature")
    IN  Outcome(
            IF IsExc(result) THEN result
            ELSE IF result = None THEN ErrorDict("No weather data available.")
            ELSE IF IsExc(has) THEN has
            ELSE IF ~has[2] THEN ErrorDict("No weather data available.")
            ELSE IF IsExc(cw) THEN cw
            ELSE IF IsExc(temperature) THEN temperature
            ELSE Dict([temperature   |-> temperature,
                       windspeed     |-> PyGet(cw, "windspeed"),
                       winddirection |-> PyGet(cw, "winddirection"),
                       weathercode   |-> PyGet(cw, "weathercode")]))

WeatherVariants == {"main", "fastmcp", "weather"}

get_weather(variant, latitude, longitude, resp) ==
    CASE variant = "main"    -> get_weather_main(latitude, longitude, resp)
      [] variant = "fastmcp" -> get_weather_fastmcp(latitude, longitude, resp)
      [] variant = "weather" -> get_weather_weather(latitude, longitude, resp)

---------------------------------------------------------------------------
(* echo *)

echo_tool(text) == Returned(text)

---------------------------------------------------------------------------
(* get_product_info: the rows the store can answer with *)

\* the sequences over S of length at most n without a repeated element
\* (the rows of one answer are distinct rows of a table)
InjSeqs(S, n) ==
    UNION {{s \in [1..k -> S] : \A a, b \in 1..k : a # b => s[a] # s[b]} : k \in 0..n}

\* products rows: select("*") yields id and name; description and price are
\* a value, a stored null, or no column at all
ProductRows ==
    {Dict([id |-> Str("p1"), name |-> Str("A"),
           description |-> Str("first"), price |-> BinV(80)]),
     Dict([id |-> Str("p2"), name |-> Str("B"),
           description |-> None, price |-> None]),
     Dict([id |-> Str("p3"), name |-> Str("C")])}

\* product_media rows: select("path, type"); two images, two videos (one
\* under the path of an image) and a row of another type
MediaRows ==
    {Dict([path |-> Str("a.png"), type |-> IntV(0)]),
     Dict([path |-> Str("b.png"), type |-> IntV(0)]),
     Dict([path |-> Str("a.png"), type |-> IntV(1)]),
     Dict([path |-> Str("b.mp4"), type |-> IntV(1)]),
     Dict([path |-> Str("c.bin"), type |-> IntV(2)])}

\* the media rows of the answers under which the loop runs over up to
\* MaxProducts products
LoopMediaRows == MediaRows \ {Dict([path |-> Str("b.mp4"), type |-> IntV(1)])}

\* what .execute() does: raises, or a response whose .data is the row list
StoreRaise(cause) == [kind |-> "raise", cause |-> cause, data |-> None]
StoreData(rows) == [kind |-> "ok", cause |-> "", data |-> List(rows)]

PrimaryOutcomes ==
    {StoreRaise("connection refused")}
        \cup {StoreData(s) : s \in InjSeqs(ProductRows, MaxProducts)}

MediaOutcomes ==
    {StoreRaise("read timeout")}
        \cup {StoreData(s) : s \in InjSeqs(LoopMediaRows, MaxMedia)}

\* every selection of the media rows in every order
MediaAnswers ==
    {StoreRaise("read timeout")}
        \cup {StoreData(s) : s \in InjSeqs(MediaRows, Cardinality(MediaRows))}

\* query.execute(), media query .execute()
Execute(outcome) ==
    IF outcome.kind = "raise" THEN Exc("APIError", outcome.cause) ELSE outcome.data

---------------------------------------------------------------------------
(* get_product_info: the aggregation *)

NoMedia == [images |-> <<>>, videos |-> <<>>]

\* the slip videos.insert(0, media["path"]) for videos.append(...)
ClassifyMediaVideoFirst(media, imgs, vids) ==
    LET type == PySubscript(media, "type")
        path == PySubscript(media, "path")
    IN  IF type = IntV(0) THEN [images |-> Append(imgs, path), videos |-> vids]
        ELSE IF type = IntV(1) THEN [images |-> imgs, videos |-> <<path>> \o vids]
        ELSE [images |-> imgs, videos |-> vids]

\* one turn of "for media in media_response.data"
ClassifyMedia(media, imgs, vids) ==
    LET type == PySubscript(media, "type")
        path == PySubscript(media, "path")
    IN  IF type = IntV(0) THEN [images |-> Append(imgs, path), videos |-> vids]
        ELSE IF type = IntV(1) THEN [images |-> imgs, videos |-> Append(vids, path)]
        ELSE [images |-> imgs, videos |-> vids]

\* the for loop over the media rows
RECURSIVE PartitionMedia(_, _, _)
PartitionMedia(data, imgs, vids) ==
    IF data = <<>> THEN [images |-> imgs, videos |-> vids]
    ELSE LET next == ClassifyMedia(Head(data), imgs, vids)
         IN  PartitionMedia(Tail(data), next.images, next.videos)

\* the slip of an except clause that only logs: the locals keep the lists of
\* the previous product
MediaExceptStale(imgs, vids) == [images |-> imgs, videos |-> vids]

\* except Exception as media_err: images = []; videos = []
\* (imgs, vids: the locals as the previous turn of the product loop left them)
MediaExcept(imgs, vids) == NoMedia

\* the inner try/except of one product: the values of images and videos after it
MediaLists(outcome, imgs, vids) ==
    LET media_response == Execute(outcome)
    IN  IF IsExc(media_response) THEN MediaExcept(imgs, vids)
        ELSE IF Truthy(media_response)
        THEN PartitionMedia(media_response[2], <<>>, <<>>)
        ELSE NoMedia

\* product_info = {...}
ProductInfo(product, imgs, vids) ==
    Dict([name        |-> PySubscript(product, "name"),
          description |-> PyGetDefault(product, "description", Str("No description")),
          price       |-> PyGetDefault(product, "price", Str("N/A")),
          images      |-> List(imgs),
          videos      |-> List(vids)])

\* the slip results.insert(0, product_info)
InsertResultFirst(res, product_info) == <<product_info>> \o res

\* results.append(product_info)
AppendResult(res, product_info) == Append(res, product_info)

\* except Exception as e: print(...); return []
ExceptProductInfo == Returned(List(<<>>))

ProductVariants == {"main", "fastmcp"}

---------------------------------------------------------------------------
(* Inputs *)

Texts == {Str(""), Str("x"), Str("a|b")}

\* amounts 0.0625, 0.5 and 10
Amounts == {BinV(1), BinV(8), BinV(160)}

\* (0, 0) and (52.5, 13.375)
Coordinates == {<<BinV(0), BinV(0)>>, <<BinV(840), BinV(214)>>}

\* rates 0.9375, 0.1875 and 0.8125: with the amounts above the products
\* have ties (0.9375 * 0.5 = 0.46875), round-ups (0.9375 * 0.0625) and
\* round-downs (0.1875 * 0.0625)
ExchangeBodies ==
    {Dict([rates |-> Dict([EUR |-> BinV(15)]), date |-> Str("2024-01-01")]),
     Dict([rates |-> Dict([EUR |-> BinV(3), GBP |-> BinV(13)])]),
     Dict([rates |-> Dict(<<>>), date |-> Str("2024-01-01")]),
     Dict([rates |-> None, date |-> None]),
     Dict([rates |-> List(<<>>)]),
     Dict([date |-> Str("2024-01-01")]),
     List(<<>>),
     None}

FullConditions ==
    Dict([temperature |-> BinV(344), windspeed |-> BinV(116),
          winddirection |-> IntV(180), weathercode |-> IntV(3),
          time |-> Str("2024-01-01T12:00")])

ConditionsWithoutTime ==
    Dict([temperature |-> BinV(-64), windspeed |-> BinV(0),
          winddirection |-> IntV(0), weathercode |-> IntV(71)])

WeatherBodies ==
    {Dict([latitude |-> BinV(0), current_weather |-> FullConditions]),
     Dict([current_weather |-> ConditionsWithoutTime]),
     Dict([current_weather |-> Dict(<<>>)]),
     Dict([current_weather |-> None]),
     Dict([current_weather |-> List(<<>>)]),
     Dict([latitude |-> BinV(0)]),
     Dict(<<>>),
     List(<<>>),
     None}

---------------------------------------------------------------------------
(* The state machine: the event loop of the server.                        *)
(*                                                                         *)
(* get_exchange_rate and get_weather hand the loop back three times:       *)
(*   at = "client"  entering "async with httpx.AsyncClient()";             *)
(*   at = "get"     in "await client.get(...)";                            *)
(*   at = "close"   leaving the "async with" block, which every return and *)
(*                  every raise of the handler passes: the answer is       *)
(*                  taken, the handler has not returned.                   *)
(* A call that waits sits in "pending" and the loop is free for other      *)
(* calls.  Resumed from "close" the handler returns or raises              *)
(* (pc = "done").  A cancellation throws CancelledError into the handler   *)
(* where it waits: at "client" and at "close" it leaves the handler at     *)
(* once, at "get" it unwinds the block and so waits at "close" first.      *)
(* "await response.json()" of fastmcp.py is no wait: awaiting a dict       *)
(* raises TypeError at once.  "await fetch_weather(...)" of weather.py     *)
(* waits where fetch_weather waits.  echo_tool and get_product_info hold   *)
(* no await: they run from call to return without the loop running         *)
(* anything else; the aggregation is followed from media query to media    *)
(* query (pc = "loop"), the pending calls waiting on.                      *)

NoCall == [tool |-> "none"]

\* the shallow store answers under which the aggregation runs beside the
\* other tools in Spec; SpecProducts runs it on all of PrimaryOutcomes and
\* MediaOutcomes, SpecMedia on all of MediaAnswers
ShallowPrimary ==
    {StoreRaise("connection refused"),
     StoreData(<<>>),
     StoreData(<<Dict([id |-> Str("p2"), name |-> Str("B"),
                       description |-> None, price |-> None]),
                 Dict([id |-> Str("p1"), name |-> Str("A"),
                       description |-> Str("first"), price |-> BinV(80)])>>)}

ShallowMedia ==
    {StoreRaise("read timeout"),
     StoreData(<<Dict([path |-> Str("a.png"), type |-> IntV(0)]),
                 Dict([path |-> Str("a.png"), type |-> IntV(1)])>>)}

\* the conversions, coordinates and upstream bodies of the calls that run
\* beside each other in Spec; SpecHandlers runs the two handlers on all of
\* Codes, Amounts, Coordinates, ExchangeBodies and WeatherBodies
ServerQuotes == {<<"usd", "Eur", BinV(8)>>, <<"Eur", "usd", BinV(1)>>}

ServerCoordinates == {<<BinV(840), BinV(214)>>}

ServerExchangeBodies ==
    {Dict([rates |-> Dict([EUR |-> BinV(15)]), date |-> Str("2024-01-01")]),
     Dict([rates |-> Dict(<<>>), date |-> Str("2024-01-01")]),
     Dict([rates |-> None, date |-> None])}

ServerWeatherBodies ==
    {Dict([latitude |-> BinV(0), current_weather |-> FullConditions]),
     Dict([current_weather |-> None]),
     Dict([latitude |-> BinV(0)])}

Init ==
    /\ pc = "idle"
    /\ call = NoCall
    /\ ret = NoReturn
    /\ results = <<>>
    /\ idx = 0
    /\ images = <<>>
    /\ videos = <<>>
    /\ issued = <<>>
    /\ mediaLog = <<>>
    /\ pending = EmptyBag

EchoTool ==
    /\ pc = "idle"
    /\ \E text \in Texts :
          /\ call' = [tool |-> "echo", variant |-> "main", text |-> text]
          /\ ret' = echo_tool(text)
    /\ pc' = "done"
    /\ UNCHANGED <<results, idx, images, videos, issued, mediaLog, pending>>

\* the waiting call c, moved on to c2
Moved(c, c2) == (pending (-) SetToBag({c})) (+) SetToBag({c2})

\* get_exchange_rate from the call to "async with httpx.AsyncClient()": the
\* handler waits for the client
GetExchangeRate(limit, quotes) ==
    /\ pc = "idle"
    /\ BagCardinality(pending) < limit
    /\ \E variant \in ExchangeVariants, q \in quotes :
          pending' = pending (+) SetToBag(
              {[tool |-> "get_exchange_rate", variant |-> variant,
                source_currency |-> q[1], destination_currency |-> q[2],
                amount |-> q[3], at |-> "client", resp |-> NoAnswer]})
    /\ UNCHANGED <<pc, call, ret, results, idx, images, videos, issued, mediaLog>>

\* get_weather from the call to "async with httpx.AsyncClient()"
GetWeather(limit, coordinates) ==
    /\ pc = "idle"
    /\ BagCardinality(pending) < limit
    /\ \E variant \in WeatherVariants, at \in coordinates :
          pending' = pending (+) SetToBag(
              {[tool |-> "get_weather", variant |-> variant,
                latitude |-> at[1], longitude |-> at[2],
                at |-> "client", resp |-> NoAnswer]})
    /\ UNCHANGED <<pc, call, ret, results, idx, images, videos, issued, mediaLog>>

\* a waiting handler has its client and runs to "await client.get(...)":
\* the request is out, the handler waits for the answer
SendGet ==
    /\ pc = "idle"
    /\ \E c \in BagToSet(pending) :
          /\ c.at = "client"
          /\ pending' = Moved(c, [c EXCEPT !.at = "get"])
    /\ UNCHANGED <<pc, call, ret, results, idx, images, videos, issued, mediaLog>>

\* the GET of a waiting get_exchange_rate ends with resp: the handler runs to
\* its return statement, or to the raise that leaves the block, and waits
\* for the client to close
GetExchangeRateAnswer(bodies) ==
    /\ pc = "idle"
    /\ \E c \in BagToSet(pending), resp \in Failures \cup {Ok2xx(b) : b \in bodies} :
          /\ c.tool = "get_exchange_rate"
          /\ c.at = "get"
          /\ pending' = Moved(c, [c EXCEPT !.at = "close", !.resp = resp])
    /\ UNCHANGED <<pc, call, ret, results, idx, images, videos, issued, mediaLog>>

\* the same for get_weather (fetch_weather in weather.py)
GetWeatherAnswer(bodies) ==
    /\ pc = "idle"
    /\ \E c \in BagToSet(pending), resp \in Failures \cup {Ok2xx(b) : b \in bodies} :
          /\ c.tool = "get_weather"
          /\ c.at = "get"
          /\ pending' = Moved(c, [c EXCEPT !.at = "close", !.resp = resp])
    /\ UNCHANGED <<pc, call, ret, results, idx, images, videos, issued, mediaLog>>

\* the waiting get_exchange_rate call c leaves the handler: with what the
\* handler made of the end of its GET, or, thrown is TRUE, with the
\* CancelledError thrown into it where it waits
ResumeExchange(c, thrown) ==
    /\ pending' = pending (-) SetToBag({c})
    /\ call' = [tool |-> "get_exchange_rate", variant |-> c.variant,
                source_currency |-> c.source_currency,
                destination_currency |-> c.destination_currency,
                amount |-> c.amount, resp |-> c.resp,
                cancelled |-> thrown \/ c.resp.kind = "cancel"]
    /\ ret' = IF thrown THEN Raised(CancelledError)
              ELSE get_exchange_rate(c.variant, c.source_currency,
                                     c.destination_currency, c.amount, c.resp)
    /\ pc' = "done"
    /\ UNCHANGED <<results, idx, images, videos, issued, mediaLog>>

ResumeWeather(c, thrown) ==
    /\ pending' = pending (-) SetToBag({c})
    /\ call' = [tool |-> "get_weather", variant |-> c.variant,
                latitude |-> c.latitude, longitude |-> c.longitude,
                resp |-> c.resp,
                cancelled |-> thrown \/ c.resp.kind = "cancel"]
    /\ ret' = IF thrown THEN Raised(CancelledError)
              ELSE get_weather(c.variant, c.latitude, c.longitude, c.resp)
    /\ pc' = "done"
    /\ UNCHANGED <<results, idx, images, videos, issued, mediaLog>>

\* the client is closed: get_exchange_rate returns, or raises
GetExchangeRateResume ==
    /\ pc = "idle"
    /\ \E c \in BagToSet(pending) :
          /\ c.tool = "get_exchange_rate"
          /\ c.at = "close"
          /\ ResumeExchange(c, FALSE)

\* the client is closed: get_weather returns, or raises
GetWeatherResume ==
    /\ pc = "idle"
    /\ \E c \in BagToSet(pending) :
          /\ c.tool = "get_weather"
          /\ c.at = "close"
          /\ ResumeWeather(c, FALSE)

\* the transport cancels a waiting call.  At "get" the CancelledError, which
\* no "except Exception" catches, unwinds "async with": the handler waits at
\* "close" and raises when resumed.  At "client" and at "close" it leaves
\* the handler at once, whatever the handler was about to return.
CancelCall ==
    /\ pc = "idle"
    /\ \E c \in BagToSet(pending) :
          IF c.at = "get"
          THEN /\ pending' = Moved(c, [c EXCEPT !.at = "close", !.resp = Cancelled])
               /\ UNCHANGED <<pc, call, ret, results, idx, images, videos, issued, mediaLog>>
          ELSE IF c.tool = "get_exchange_rate"
          THEN ResumeExchange(c, TRUE)
          ELSE ResumeWeather(c, TRUE)

\* get_product_info up to the product loop: the primary query and the
\* "no rows" return
GetProductInfoQuery(primaries) ==
    /\ pc = "idle"
    /\ \E variant \in ProductVariants, primary \in primaries :
          LET products_response == Execute(primary)
          IN  /\ call' = [tool |-> "get_product_info", variant |-> variant,
                          primary |-> primary]
              /\ IF IsExc(products_response)
                 THEN /\ ret' = ExceptProductInfo
                      /\ pc' = "done"
                      /\ UNCHANGED <<results, idx>>
                 ELSE IF ~Truthy(products_response)
                 THEN /\ ret' = Returned(List(<<>>))
                      /\ pc' = "done"
                      /\ UNCHANGED <<results, idx>>
                 ELSE /\ ret' = NoReturn
                      /\ pc' = "loop"
                      /\ results' = <<>>
                      /\ idx' = 1
    /\ UNCHANGED <<images, videos, issued, mediaLog, pending>>

\* one turn of "for product in products_response.data", and the return
\* after the last one
GetProductInfoMedia(medias) ==
    /\ pc = "loop"
    /\ \E outcome \in medias :
          LET rows == call.primary.data[2]
              product == rows[idx]
              product_id == PySubscript(product, "id")
              lists == MediaLists(outcome, images, videos)
              product_info == ProductInfo(product, lists.images, lists.videos)
              after == AppendResult(results, product_info)
          IN  /\ issued' = Append(issued, product_id)
              /\ mediaLog' = Append(mediaLog, outcome)
              /\ images' = lists.images
              /\ videos' = lists.videos
              /\ results' = after
              /\ idx' = idx + 1
              /\ IF idx = Len(rows)
                 THEN /\ pc' = "done"
                      /\ ret' = Returned(List(after))
                 ELSE /\ pc' = "loop"
                      /\ ret' = NoReturn
    /\ UNCHANGED <<call, pending>>

\* the dispatcher hands the result to the transport; nothing of the call is
\* kept, the waiting calls wait on
Deliver ==
    /\ pc = "done"
    /\ pc' = "idle"
    /\ call' = NoCall
    /\ ret' = NoReturn
    /\ results' = <<>>
    /\ idx' = 0
    /\ images' = <<>>
    /\ videos' = <<>>
    /\ issued' = <<>>
    /\ mediaLog' = <<>>
    /\ UNCHANGED pending

\* the server: every tool, the calls interleaved at their awaits
Next ==
    \/ EchoTool
    \/ GetExchangeRate(MaxInFlight, ServerQuotes)
    \/ GetWeather(MaxInFlight, ServerCoordinates)
    \/ SendGet
    \/ GetExchangeRateAnswer(ServerExchangeBodies)
    \/ GetWeatherAnswer(ServerWeatherBodies)
    \/ GetExchangeRateResume
    \/ GetWeatherResume
    \/ CancelCall
    \/ GetProductInfoQuery(ShallowPrimary)
    \/ GetProductInfoMedia(ShallowMedia)
    \/ Deliver

Spec == Init /\ [][Next]_vars

\* the two upstream handlers on every input and upstream answer of the
\* model, one call at a time
NextHandlers ==
    \/ GetExchangeRate(1, Codes \X Codes \X Amounts)
    \/ GetWeather(1, Coordinates)
    \/ SendGet
    \/ GetExchangeRateAnswer(ExchangeBodies)
    \/ GetWeatherAnswer(WeatherBodies)
    \/ GetExchangeRateResume
    \/ GetWeatherResume
    \/ CancelCall
    \/ Deliver

SpecHandlers == Init /\ [][NextHandlers]_vars

\* the aggregation on every store answer within the bounds
NextProducts ==
    \/ GetProductInfoQuery(PrimaryOutcomes)
    \/ GetProductInfoMedia(MediaOutcomes)
    \/ Deliver

SpecProducts == Init /\ [][NextProducts]_vars

\* the aggregation of one and of two products on every media answer
NextMedia ==
    \/ GetProductInfoQuery(ShallowPrimary \cup {StoreData(<<r>>) : r \in ProductRows})
    \/ GetProductInfoMedia(MediaAnswers)
    \/ Deliver

SpecMedia == Init /\ [][NextMedia]_vars

---------------------------------------------------------------------------
(* Properties *)

\* the call is one of the given tool that no cancellation ended
InExchange == call.tool = "get_exchange_rate" /\ ~call.cancelled
InWeather == call.tool = "get_weather" /\ ~call.cancelled
InProducts == call.tool = "get_product_info"

\* the rows of the primary answer of the running get_product_info call
Rows == call.primary.data[2]
PrimaryAnswered == InProducts /\ call.primary.kind = "ok"

IsErrPayload(v) == IsDict(v) /\ DOMAIN v[2] = {"error"}

\* the paths of the rows of the given type, in the order of the rows
PathsOfType(data, t) ==
    LET OfType(m) == m[2]["type"] = IntV(t)
        sel == SelectSeq(data, OfType)
    IN  [j \in 1..Len(sel) |-> sel[j][2]["path"]]

Range(seq) == {seq[j] : j \in 1..Len(seq)}

\* C1: for a non-empty primary answer and any set of failing media queries,
\* every product gets a record: empty images and videos where its media query
\* raised, its own media where the query answered; the media queries are issued
\* for the products in order whatever the earlier outcomes, and the call
\* returns one record per row.
MediaFailureIsolated ==
    (PrimaryAnswered /\ Len(Rows) > 0) =>
        /\ Len(results) = Len(mediaLog)
        /\ issued = [j \in 1..Len(mediaLog) |-> Rows[j][2]["id"]]
        /\ \A j \in 1..Len(mediaLog) :
              LET rec == results[j][2]
                  real == PartitionMedia(mediaLog[j].data[2], <<>>, <<>>)
              IN  IF mediaLog[j].kind = "raise"
                  THEN rec["images"] = List(<<>>) /\ rec["videos"] = List(<<>>)
                  ELSE rec["images"] = List(real.images) /\ rec["videos"] = List(real.videos)
        /\ pc = "loop" => idx = Len(mediaLog) + 1 /\ idx <= Len(Rows)
        /\ pc = "done" => /\ Len(mediaLog) = Len(Rows)
                          /\ ret = Returned(List(results))

\* C1 witness: three products; the second one's media query raised, after a
\* first product that has media, and the third one's query was still issued
\* and brought its media
MediaFailureIsolatedWitness ==
    /\ PrimaryAnswered
    /\ pc = "done"
    /\ Len(Rows) = 3
    /\ mediaLog[1].kind = "ok"
    /\ Len(results[1][2]["images"][2]) > 0
    /\ Len(results[1][2]["videos"][2]) > 0
    /\ mediaLog[2].kind = "raise"
    /\ results[2][2]["images"] = List(<<>>)
    /\ results[2][2]["videos"] = List(<<>>)
    /\ mediaLog[3].kind = "ok"
    /\ Len(results[3][2]["images"][2]) > 0
    /\ Len(issued) = 3

\* C2 as claimed: a raising primary query yields an Err payload, which differs
\* from the empty sequence of a primary answer without rows.
PrimaryFaultIsErr ==
    (InProducts /\ pc = "done" /\ call.primary.kind = "raise") =>
        /\ ret.kind = "return"
        /\ IsErrPayload(ret.value)
        /\ ret.value # List(<<>>)

\* C3 as claimed: in every get_weather variant a failed GET yields
\* "Failed to fetch weather: <cause>", and "No weather data available." only
\* comes with a 2xx answer whose body has no current-conditions object.
WeatherFailureMessage ==
    (InWeather /\ pc = "done") =>
        /\ call.resp.kind \in {"neterr", "status"} =>
              ret = Returned(ErrorDict("Failed to fetch weather: " \o call.resp.cause))
        /\ ret = Returned(ErrorDict("No weather data available.")) =>
              /\ call.resp.kind = "ok"
              /\ ~(/\ IsDict(call.resp.body)
                   /\ "current_weather" \in DOMAIN call.resp.body[2]
                   /\ IsDict(call.resp.body[2]["current_weather"]))

\* the 2xx answers with a rates mapping
HasRates == /\ InExchange
            /\ call.resp.kind = "ok"
            /\ IsDict(call.resp.body)
            /\ "rates" \in DOMAIN call.resp.body[2]
            /\ IsDict(call.resp.body[2]["rates"])

\* C4 as claimed: in every get_exchange_rate variant, a 2xx answer whose rates
\* hold the upper-cased destination yields the quote: from and to upper-cased,
\* amount and rate as given, converted = round(rate * amount, 4), the upstream
\* date.
ExchangeSuccessQuote ==
    (HasRates /\ pc = "done"
        /\ Upper(call.destination_currency) \in DOMAIN call.resp.body[2]["rates"][2]) =>
        LET body == call.resp.body[2]
            rate == body["rates"][2][Upper(call.destination_currency)]
        IN  ret = Returned(Dict(
                [from      |-> Str(Upper(call.source_currency)),
                 to        |-> Str(Upper(call.destination_currency)),
                 amount    |-> call.amount,
                 rate      |-> rate,
                 converted |-> DecV(RoundHalfEven(rate[2] * call.amount[2] * Scale,
                                                  BinUnit * BinUnit)),
                 date      |-> IF "date" \in DOMAIN body THEN body["date"] ELSE None]))

\* the finished call ended by the transport's cancellation, which is no
\* upstream outcome
WasCancelled ==
    /\ call.tool \in {"get_exchange_rate", "get_weather"}
    /\ call.cancelled

\* C5 as claimed: whatever the upstream does, every handler returns a value; no
\* exception leaves a handler.
NoExceptionLeavesHandler ==
    (pc = "done" /\ ~WasCancelled) => ret.kind = "return"

\* C6 as claimed: a 2xx answer whose rates lack the upper-cased destination
\* yields exactly {"error": "Invalid currency code or unsupported conversion."}.
MissingRateMessage ==
    (HasRates /\ pc = "done"
        /\ Upper(call.destination_currency) \notin DOMAIN call.resp.body[2]["rates"][2]) =>
        ret = Returned(ErrorDict("Invalid currency code or unsupported conversion."))

\* C7 as claimed: in every get_weather variant, a 2xx answer with a
\* current-conditions object yields temperature, windspeed, winddirection,
\* weathercode and time, each the upstream value, time being null when the
\* upstream omits it.
WeatherProjection ==
    (InWeather /\ pc = "done" /\ call.resp.kind = "ok"
        /\ IsDict(call.resp.body)
        /\ "current_weather" \in DOMAIN call.resp.body[2]
        /\ IsDict(call.resp.body[2]["current_weather"])) =>
        LET cw == call.resp.body[2]["current_weather"][2]
            Field(k) == IF k \in DOMAIN cw THEN cw[k] ELSE None
        IN  ret = Returned(Dict(
                [k \in {"temperature", "windspeed", "winddirection", "weathercode", "time"}
                    |-> Field(k)]))

\* C8: when the primary query answers rows r1..rn, the call returns exactly n
\* records and the i-th carries the name of ri.
RowOrderPreserved ==
    (PrimaryAnswered /\ pc = "done") =>
        /\ ret.kind = "return"
        /\ IsList(ret.value)
        /\ Len(ret.value[2]) = Len(Rows)
        /\ \A j \in 1..Len(Rows) : ret.value[2][j][2]["name"] = Rows[j][2]["name"]

\* C8 witness: three rows returned in the store's order, which is not the
\* order of their names, with one media query raised and one answered
RowOrderPreservedWitness ==
    /\ PrimaryAnswered
    /\ pc = "done"
    /\ Len(Rows) = 3
    /\ Len(ret.value[2]) = 3
    /\ ret.value[2][1][2]["name"] = Str("C")
    /\ ret.value[2][2][2]["name"] = Str("A")
    /\ ret.value[2][3][2]["name"] = Str("B")
    /\ \E j \in 1..3 : mediaLog[j].kind = "raise"
    /\ \E j \in 1..3 : mediaLog[j].kind = "ok"

\* C9: for a product whose media query answered, images are the paths of the
\* rows of type 0 and videos those of type 1, each in the store's order; a row
\* of another type goes to neither list, and a path is in both lists only if
\* it comes under both types.
MediaPartitioned ==
    PrimaryAnswered =>
        \A j \in 1..Len(mediaLog) :
            mediaLog[j].kind = "ok" =>
                LET data == mediaLog[j].data[2]
                    imgs == results[j][2]["images"][2]
                    vids == results[j][2]["videos"][2]
                IN  /\ imgs = PathsOfType(data, 0)
                    /\ vids = PathsOfType(data, 1)
                    /\ Len(imgs) + Len(vids) =
                          Cardinality({k \in 1..Len(data) :
                              data[k][2]["type"] \in {IntV(0), IntV(1)}})
                    /\ \A p \in Range(imgs) \cap Range(vids) :
                          /\ \E k \in 1..Len(data) :
                                data[k] = Dict([path |-> p, type |-> IntV(0)])
                          /\ \E k \in 1..Len(data) :
                                data[k] = Dict([path |-> p, type |-> IntV(1)])

\* C9 witness: the returned record of a product whose media answer holds all
\* five rows: the row of another type first, the videos and the images each
\* against the order of their paths, and the path a.png under both types
MediaPartitionedWitness ==
    /\ PrimaryAnswered
    /\ pc = "done"
    /\ \E j \in 1..Len(mediaLog) :
          /\ mediaLog[j].kind = "ok"
          /\ Len(mediaLog[j].data[2]) = 5
          /\ mediaLog[j].data[2][1][2]["type"] = IntV(2)
          /\ results[j][2]["images"] = List(<<Str("b.png"), Str("a.png")>>)
          /\ results[j][2]["videos"] = List(<<Str("b.mp4"), Str("a.png")>>)
          /\ ret.value[2][j] = results[j]

\* C10 as claimed: a record's description is "No description" whenever the row
\* has no description value, the field missing or null, and its price "N/A"
\* whenever the row has no price value; otherwise they are the row's values.
DefaultsWhenAbsent ==
    PrimaryAnswered =>
        \A j \in 1..Len(results) :
            LET row == Rows[j][2]
                rec == results[j][2]
                Absent(k) == k \notin DOMAIN row \/ row[k] = None
            IN  /\ rec["description"] =
                      IF Absent("description") THEN Str("No description")
                      ELSE row["description"]
                /\ rec["price"] =
                      IF Absent("price") THEN Str("N/A") ELSE row["price"]

====
